---- MODULE Spec2Model ----
(***************************************************************************)
(* Model of the README relevance-scoring pipeline of GithubResumeParser:   *)
(* the three analyzer scripts ai_analyzer.py, repo_analyzer.py and         *)
(* repo_analyzer_groq.py.  Text is modelled as sequences of one-character  *)
(* strings so that strip, split, startswith and int behave as in Python.   *)
(***************************************************************************)
EXTENDS Integers, Sequences, FiniteSets, TLC

(***************************************************************************)
(* Bounds of the model.                                                    *)
(***************************************************************************)
\* longest list of the short-list input family
MaxRepos == 2
\* longest body (text after the label) of a one-line model reply
MaxBody == 2
\* most lines of a multi-line model reply
MaxLines == 2
\* long-list input family: entries beyond the truncation limit
MaxExtra == 2
\* long-list input family: most forks in one list
MaxForks == 2

(***************************************************************************)
(* Program constants.                                                      *)
(***************************************************************************)
\* own_repos[:10]
TruncLimit == 10
\* len(readme_content.strip()) < 50
MinReadmeLen == 50
\* max_retries = 3
max_retries == 3
\* response.status_code == 200
HTTP_OK == 200
\* response.status_code == 429
HTTP_TOO_MANY == 429
\* time.sleep(0.5) after a Groq reply, in milliseconds
GroqDelayMs == 500
\* time.sleep(2) after a Gemini reply, in milliseconds
GeminiDelayMs == 2000
\* wait_time = (attempt + 1) * 3, the factor in milliseconds
BackoffStepMs == 3000
\* sorted_results[:5]
TopCount == 5

(***************************************************************************)
(* String literals of the source, as character sequences.                  *)
(***************************************************************************)
LBL_SCORE ==
    <<"S", "C", "O", "R", "E", ":">>

LBL_RELEVANCE ==
    <<"R", "E", "L", "E", "V", "A", "N", "C", "E", ":">>

LBL_REASONING ==
    <<"R", "E", "A", "S", "O", "N", "I", "N", "G", ":">>

STR_Unknown ==
    <<"U", "n", "k", "n", "o", "w", "n">>

STR_NoContent ==
    <<"N", "o", " ", "C", "o", "n", "t", "e", "n", "t">>

STR_TooShort ==
    <<"R", "E", "A", "D", "M", "E", " ", "i", "s", " ", "t", "o", "o", " ", "s", "h", "o", "r", "t", " ", "o", "r", " ", "e", "m", "p", "t", "y">>

STR_APIError ==
    <<"A", "P", "I", " ", "E", "r", "r", "o", "r">>

STR_Error ==
    <<"E", "r", "r", "o", "r">>

STR_NoREADME ==
    <<"N", "o", " ", "R", "E", "A", "D", "M", "E">>

STR_NoReadmeFile ==
    <<"R", "e", "p", "o", "s", "i", "t", "o", "r", "y", " ", "h", "a", "s", " ", "n", "o", " ", "R", "E", "A", "D", "M", "E", " ", "f", "i", "l", "e">>

STR_RateLimited ==
    <<"R", "a", "t", "e", " ", "L", "i", "m", "i", "t", "e", "d">>

STR_RateLimitExceeded ==
    <<"A", "P", "I", " ", "r", "a", "t", "e", " ", "l", "i", "m", "i", "t", " ", "e", "x", "c", "e", "e", "d", "e", "d", " ", "a", "f", "t", "e", "r", " ", "r", "e", "t", "r", "i", "e", "s">>

STR_APIReturnedStatus ==
    <<"A", "P", "I", " ", "r", "e", "t", "u", "r", "n", "e", "d", " ", "s", "t", "a", "t", "u", "s", " ">>

(***************************************************************************)
(* Python string primitives.                                               *)
(***************************************************************************)
\* str.isspace for one character (the ASCII whitespace str.strip removes)
IsSpace(c) ==
    c \in {" ", "\t", "\n", "\r", "\f"}

Digits ==
    {"0", "1", "2", "3", "4", "5", "6", "7", "8", "9"}

DigitVal(c) ==
    CASE c = "0" -> 0 [] c = "1" -> 1 [] c = "2" -> 2 [] c = "3" -> 3
      [] c = "4" -> 4 [] c = "5" -> 5 [] c = "6" -> 6 [] c = "7" -> 7
      [] c = "8" -> 8 [] c = "9" -> 9

DigitChar(d) ==
    CASE d = 0 -> "0" [] d = 1 -> "1" [] d = 2 -> "2" [] d = 3 -> "3"
      [] d = 4 -> "4" [] d = 5 -> "5" [] d = 6 -> "6" [] d = 7 -> "7"
      [] d = 8 -> "8" [] d = 9 -> "9"

\* s[a:b] with 1-based inclusive bounds
Slice(s, a, b) ==
    IF a > b THEN <<>> ELSE SubSeq(s, a, b)

\* s[:n]
Take(s, n) ==
    IF n >= Len(s) THEN s ELSE Slice(s, 1, n)

RECURSIVE lstrip(_)
lstrip(s) ==
    IF s # <<>> /\ IsSpace(Head(s)) THEN lstrip(Tail(s)) ELSE s

RECURSIVE rstrip(_)
rstrip(s) ==
    IF s # <<>> /\ IsSpace(s[Len(s)]) THEN rstrip(Slice(s, 1, Len(s) - 1)) ELSE s

\* str.strip()
strip(s) ==
    rstrip(lstrip(s))

\* str.startswith(prefix)
startswith(s, prefix) ==
    Len(s) >= Len(prefix) /\ Slice(s, 1, Len(prefix)) = prefix

\* index of the first occurrence of character sep in s, 0 when there is none
FirstIndex(s, sep) ==
    IF \E k \in 1..Len(s) : s[k] = sep
    THEN CHOOSE k \in 1..Len(s) : s[k] = sep /\ \A j \in 1..(k - 1) : s[j] # sep
    ELSE 0

\* str.split(sep) for a one-character separator: every segment
RECURSIVE split(_, _)
split(s, sep) ==
    LET k == FirstIndex(s, sep)
    IN  IF k = 0 THEN <<s>>
        ELSE <<Slice(s, 1, k - 1)>> \o split(Slice(s, k + 1, Len(s)), sep)

\* str.split(sep, 1): at most one cut
split1(s, sep) ==
    LET k == FirstIndex(s, sep)
    IN  IF k = 0 THEN <<s>>
        ELSE <<Slice(s, 1, k - 1), Slice(s, k + 1, Len(s))>>

\* the digit part of an int literal: digits, single underscores between them
IsDigitRun(d) ==
    /\ d # <<>>
    /\ \A k \in 1..Len(d) : d[k] \in Digits \cup {"_"}
    /\ d[1] # "_" /\ d[Len(d)] # "_"
    /\ \A k \in 1..(Len(d) - 1) : ~(d[k] = "_" /\ d[k + 1] = "_")

RECURSIVE DigitRunVal(_, _)
DigitRunVal(d, acc) ==
    IF d = <<>> THEN acc
    ELSE IF Head(d) = "_" THEN DigitRunVal(Tail(d), acc)
    ELSE DigitRunVal(Tail(d), 10 * acc + DigitVal(Head(d)))

\* int(s): [ok |-> FALSE] stands for the ValueError int raises
int(s) ==
    LET t == strip(s)
        signed == t # <<>> /\ Head(t) \in {"+", "-"}
        d == IF signed THEN Tail(t) ELSE t
    IN  IF IsDigitRun(d)
        THEN [ok |-> TRUE,
              val |-> IF signed /\ Head(t) = "-" THEN 0 - DigitRunVal(d, 0)
                      ELSE DigitRunVal(d, 0)]
        ELSE [ok |-> FALSE, val |-> 0]

\* str(n) for n >= 0 (an HTTP status code inside an f-string)
RECURSIVE str(_)
str(n) ==
    IF n < 10 THEN <<DigitChar(n)>> ELSE str(n \div 10) \o <<DigitChar(n % 10)>>

(***************************************************************************)
(* parse_ai_response (ai_analyzer.py) and the identical inline loops of    *)
(* repo_analyzer.py and repo_analyzer_groq.py.                             *)
(***************************************************************************)
\* score = int(line.split(':')[1].strip().split('/')[0]), except: score = 0
ScoreOfLine(line) ==
    LET r == int(split(strip(split(line, ":")[2]), "/")[1])
    IN  IF r.ok THEN r.val ELSE 0

\* relevance = line.split(':')[1].strip()
RelevanceOfLine(line) ==
    strip(split(line, ":")[2])

\* reasoning = line.split(':', 1)[1].strip()
ReasoningOfLine(line) ==
    strip(split1(line, ":")[2])

\* one iteration of `for line in lines`
ScanLine(line, acc) ==
    IF startswith(line, LBL_SCORE)
    THEN [acc EXCEPT !.score = ScoreOfLine(line)]
    ELSE IF startswith(line, LBL_RELEVANCE)
    THEN [acc EXCEPT !.relevance = RelevanceOfLine(line)]
    ELSE IF startswith(line, LBL_REASONING)
    THEN [acc EXCEPT !.reasoning = ReasoningOfLine(line)]
    ELSE acc

\* mutant of ScanLines: the lines are applied last to first, so that the first
\* line with a label wins
RECURSIVE ScanLines_reversed(_, _)
ScanLines_reversed(lines, acc) ==
    IF lines = <<>> THEN acc
    ELSE ScanLine(Head(lines), ScanLines_reversed(Tail(lines), acc))

RECURSIVE ScanLines(_, _)
ScanLines(lines, acc) ==
    IF lines = <<>> THEN acc
    ELSE ScanLines(Tail(lines), ScanLine(Head(lines), acc))

\* lines = result_text.strip().split('\n')
ReplyLines(result_text) ==
    split(strip(result_text), "\n")

parse_ai_response(result_text) ==
    ScanLines(ReplyLines(result_text),
              [score |-> 0, relevance |-> STR_Unknown, reasoning |-> <<>>])

(***************************************************************************)
(* The outside world: GitHub and the model provider.  A GET or POST either *)
(* raises (requests.exceptions.RequestException) or answers with a status. *)
(***************************************************************************)
\* str(e) of a transport failure of requests.get / requests.post
ERR_Connection ==
    <<"C", "o", "n", "n", "e", "c", "t", "i", "o", "n", "E", "r", "r", "o", "r">>

\* str(e) of response.json() or of the key lookups failing on a 200 body
ERR_Decode ==
    <<"K", "e", "y", "E", "r", "r", "o", "r">>

Resp200(text) ==
    [exc |-> FALSE, status |-> HTTP_OK, json_ok |-> TRUE, text |-> text]

RespBad200 ==
    [exc |-> FALSE, status |-> HTTP_OK, json_ok |-> FALSE, text |-> <<>>]

RespStatus(s) ==
    [exc |-> FALSE, status |-> s, json_ok |-> FALSE, text |-> <<>>]

RespExc ==
    [exc |-> TRUE, status |-> 0, json_ok |-> FALSE, text |-> <<>>]

\* a README of `lead` blanks, `body` non-blank characters, `trail` blanks
Readme(lead, body, trail) ==
    [k \in 1..(lead + body + trail) |->
        IF k <= lead \/ k > lead + body THEN " " ELSE "x"]

\* the answer of GET /repos/{owner}/{repo}/readme and of GET download_url
GhReadme(text) ==
    [meta_exc |-> FALSE, meta_status |-> HTTP_OK, download_url |-> TRUE,
     content_exc |-> FALSE, content_status |-> HTTP_OK, text |-> text]

GhMetaStatus(s) ==
    [meta_exc |-> FALSE, meta_status |-> s, download_url |-> FALSE,
     content_exc |-> FALSE, content_status |-> s, text |-> <<>>]

GhMetaExc ==
    [meta_exc |-> TRUE, meta_status |-> 0, download_url |-> FALSE,
     content_exc |-> FALSE, content_status |-> 0, text |-> <<>>]

GhNoUrl ==
    [meta_exc |-> FALSE, meta_status |-> HTTP_OK, download_url |-> FALSE,
     content_exc |-> FALSE, content_status |-> 0, text |-> <<>>]

\* the body of a failed content GET is the server's error page
GhContentStatus(s) ==
    [meta_exc |-> FALSE, meta_status |-> HTTP_OK, download_url |-> TRUE,
     content_exc |-> FALSE, content_status |-> s,
     text |-> str(s) \o <<":", " ", "N", "o", "t", " ", "F", "o", "u", "n", "d">>]

GhContentExc ==
    [meta_exc |-> FALSE, meta_status |-> HTTP_OK, download_url |-> TRUE,
     content_exc |-> TRUE, content_status |-> 0, text |-> <<>>]

(***************************************************************************)
(* Input families.                                                         *)
(***************************************************************************)
\* characters of the body of a one-line reply
BodyAlphabet ==
    {" ", "1", "0", "-", "/", ":", ".", "N"}

Bodies ==
    UNION {[1..n -> BodyAlphabet] : n \in 0..MaxBody}

Labels ==
    {LBL_SCORE, LBL_RELEVANCE, LBL_REASONING}

OneLineReplies ==
    {l \o b : l \in Labels, b \in Bodies}

\* lines of the sample replies
ReplyLineSet ==
    { LBL_SCORE \o <<" ", "8", "/", "1", "0">>,
      LBL_SCORE \o <<" ", "N", "/", "A">>,
      LBL_SCORE \o <<" ", "8", ".", "5", "/", "1", "0">>,
      LBL_SCORE \o <<" ", "-", "3", "/", "1", "0">>,
      LBL_SCORE \o <<" ", "8", ":", "5", "/", "1", "0">>,
      LBL_RELEVANCE \o <<" ", "H", "i", "g", "h">>,
      LBL_RELEVANCE \o <<"L", "o", "w", ":", " ", "x">>,
      LBL_REASONING \o <<" ", "U", "s", "e", "s", ":", " ", "R", "A", "G", ".">>,
      LBL_REASONING,
      <<" ">> \o LBL_SCORE \o <<"5">>,
      <<>> }

RECURSIVE JoinLines(_)
JoinLines(ls) ==
    IF Len(ls) = 1 THEN ls[1] ELSE ls[1] \o <<"\n">> \o JoinLines(Tail(ls))

MultiLineReplies ==
    {JoinLines(ls) : ls \in UNION {[1..n -> ReplyLineSet] : n \in 1..MaxLines}}

Replies ==
    OneLineReplies \cup MultiLineReplies

\* the reply of the spec's end-to-end example, shortened
SampleReply ==
    JoinLines(<< LBL_SCORE \o <<" ", "8", "/", "1", "0">>,
                 LBL_RELEVANCE \o <<" ", "H", "i", "g", "h">>,
                 LBL_REASONING \o <<" ", "U", "s", "e", "s", ":", " ", "R", "A", "G", ".">> >>)

\* a reply like SampleReply with a low score
LowReply ==
    JoinLines(<< LBL_SCORE \o <<" ", "3", "/", "1", "0">>,
                 LBL_RELEVANCE \o <<" ", "L", "o", "w">>,
                 LBL_REASONING \o <<" ", "N", "o", " ", "R", "A", "G", ".">> >>)

\* the replies along a long list: a low score in front and on every third
\* entry, the sample's score on the others
LongReply(k) ==
    IF k % 3 = 1 THEN LowReply ELSE SampleReply

ErrStatuses ==
    {403, 500}

R429 ==
    RespStatus(HTTP_TOO_MANY)

\* an answer after which no client POSTs again
FinalResponses ==
    {Resp200(SampleReply), RespBad200, RespExc} \cup {RespStatus(s) : s \in ErrStatuses}

\* what the provider answers to the successive POSTs about one repository
ResponsePaths ==
    {<<r>> : r \in FinalResponses}
    \cup {<<R429, r>> : r \in FinalResponses}
    \cup {<<R429, R429, r>> : r \in FinalResponses \cup {R429}}

GoodReadme ==
    Readme(0, MinReadmeLen, 0)

ShortReadmes ==
    {Readme(0, 0, 0), Readme(2, 0, 1), Readme(0, 1, 0),
     Readme(0, MinReadmeLen - 1, 0), Readme(1, MinReadmeLen - 1, 1)}

LongReadmes ==
    {GoodReadme, Readme(1, MinReadmeLen, 1), Readme(0, MinReadmeLen + 1, 0)}

AbsentReadmes ==
    {GhMetaStatus(404), GhMetaExc, GhNoUrl, GhContentStatus(404), GhContentExc}

\* one repository of the input file with the world's answers about it
Case(fork, gh, rs) ==
    [fork |-> fork, gh |-> gh, rs |-> rs]

\* a single repository, every README outcome and every provider outcome
SingleCases ==
    {Case("false", gh, <<RespStatus(500)>>) :
        gh \in AbsentReadmes \cup {GhReadme(t) : t \in ShortReadmes}}
    \cup {Case("false", GhReadme(t), rs) : t \in LongReadmes, rs \in ResponsePaths}
    \cup {Case("false", GhReadme(GoodReadme), <<Resp200(t)>>) : t \in Replies}

\* the repositories the short lists are made of
CoreCases ==
    { Case("false", GhMetaStatus(404), <<RespStatus(500)>>),
      Case("false", GhMetaExc, <<RespStatus(500)>>),
      Case("false", GhReadme(Readme(0, 0, 0)), <<RespStatus(500)>>),
      Case("false", GhReadme(GoodReadme), <<Resp200(SampleReply)>>),
      Case("false", GhReadme(GoodReadme), <<RespExc>>),
      Case("false", GhReadme(GoodReadme), <<R429, R429, R429>>),
      Case("true", GhReadme(GoodReadme), <<Resp200(SampleReply)>>),
      Case("absent", GhReadme(GoodReadme), <<RespStatus(500)>>) }

ShortLists ==
    UNION {[1..n -> CoreCases] : n \in 0..MaxRepos}

\* positions of a long list of n entries where a fork may sit: in front, at the
\* truncation limit, right behind it and at the end
ForkSlots(n) ==
    {1, 2, TruncLimit, TruncLimit + 1, n}

\* lists longer than the truncation limit, with a few forks among them
LongLists ==
    UNION { { [k \in 1..n |->
                 Case(IF k \in F THEN "true" ELSE "false",
                      GhReadme(GoodReadme), <<Resp200(LongReply(k))>>)] :
              F \in {G \in SUBSET ForkSlots(n) : Cardinality(G) <= MaxForks} } :
            n \in (TruncLimit + 1)..(TruncLimit + MaxExtra) }

InputLists ==
    {<<c>> : c \in SingleCases} \cup ShortLists \cup LongLists

\* an entry of github_data.json's "repositories"; the key is_fork may be missing
RepoEntry(name, fork) ==
    IF fork = "absent" THEN [name |-> name]
    ELSE [name |-> name, is_fork |-> (fork = "true")]

\* the credentials each script reads from the environment
Configs ==
    {[script |-> "ai_analyzer", GROQ_API_KEY |-> g, GEMINI_API_KEY |-> m] :
        g \in BOOLEAN, m \in BOOLEAN}
    \cup {[script |-> "repo_analyzer", GROQ_API_KEY |-> FALSE, GEMINI_API_KEY |-> m] :
        m \in BOOLEAN}
    \cup {[script |-> "repo_analyzer_groq", GROQ_API_KEY |-> g, GEMINI_API_KEY |-> FALSE] :
        g \in BOOLEAN}

(***************************************************************************)
(* State.                                                                  *)
(***************************************************************************)
VARIABLES
    config,     \* the script that runs and the credentials of its environment
    all_repos,  \* github_data['repositories']
    github,     \* repository name -> the answers of GitHub about its README
    provider,   \* repository name -> the answers of the model provider
    pc,         \* position of the script
    exit_code,  \* status of exit(), -1 while the process has not exited
    repos,      \* the list the loop iterates over
    i,          \* 1-based position of the loop in repos
    readme,     \* what fetch_readme returned: [none |-> TRUE] is None
    attempt,    \* loop variable of the Gemini retry loop
    analysis,   \* the analysis of the current repository
    results,    \* the result list
    calls,      \* every GET, POST and sleep made so far, in order
    file,       \* the output file repo_analysis.json
    summary,    \* the entries print_summary has printed
    x_repos,    \* github_data_extractor: the repos given to get_languages_from_repos
    x_pc,       \* github_data_extractor: position of get_languages_from_repos
    x_i,        \* github_data_extractor: 1-based position of its loop
    languages,  \* github_data_extractor: the accumulator dict
    x_gets      \* github_data_extractor: positions of the repos it has sent a GET for

\* the state of the analyzer scripts besides their output
runVars ==
    <<config, all_repos, github, provider, pc, exit_code, repos, i, readme,
      attempt, analysis, results, calls>>

outVars ==
    <<file, summary>>

\* the state of get_languages_from_repos
extractVars ==
    <<x_repos, x_pc, x_i, languages, x_gets>>

vars ==
    <<runVars, outVars, extractVars>>

None ==
    [none |-> TRUE, text |-> <<>>]

Some(text) ==
    [none |-> FALSE, text |-> text]

NoAnalysis ==
    [score |-> 0, relevance |-> <<>>, reasoning |-> <<>>]

\* mutant of USE_GROQ: Gemini is preferred when both keys are set
USE_GROQ_unless_gemini ==
    CASE config.script = "ai_analyzer" -> config.GROQ_API_KEY /\ ~config.GEMINI_API_KEY
      [] config.script = "repo_analyzer" -> FALSE
      [] config.script = "repo_analyzer_groq" -> TRUE

\* USE_GROQ = bool(GROQ_API_KEY); repo_analyzer.py only knows Gemini,
\* repo_analyzer_groq.py only Groq
USE_GROQ ==
    CASE config.script = "ai_analyzer" -> config.GROQ_API_KEY
      [] config.script = "repo_analyzer" -> FALSE
      [] config.script = "repo_analyzer_groq" -> TRUE

\* mutant of is_fork: a missing key counts as a fork
is_fork_default_true(repo) ==
    IF "is_fork" \in DOMAIN repo THEN repo.is_fork ELSE TRUE

\* repo.get('is_fork', False)
is_fork(repo) ==
    IF "is_fork" \in DOMAIN repo THEN repo.is_fork ELSE FALSE

\* [repo for repo in all_repos if not repo.get('is_fork', False)]
RECURSIVE own_repos(_)
own_repos(rs) ==
    IF rs = <<>> THEN <<>>
    ELSE IF ~is_fork(Head(rs)) THEN <<Head(rs)>> \o own_repos(Tail(rs))
    ELSE own_repos(Tail(rs))

\* mutant of SelectRepos: the list is cut to ten entries before the forks go
SelectRepos_cut_first(script, rs) ==
    IF script = "repo_analyzer" THEN rs
    ELSE own_repos(Take(rs, TruncLimit))

\* the list the orchestrator of a script loops over
SelectRepos(script, rs) ==
    IF script = "repo_analyzer" THEN rs
    ELSE Take(own_repos(rs), TruncLimit)

\* the fixed analyses
NoContentAnalysis ==
    [score |-> 0, relevance |-> STR_NoContent, reasoning |-> STR_TooShort]

NoReadmeAnalysis ==
    [score |-> 0, relevance |-> STR_NoREADME, reasoning |-> STR_NoReadmeFile]

ErrorAnalysis(msg) ==
    [score |-> 0, relevance |-> STR_Error, reasoning |-> msg]

\* mutant of StatusAnalysis: the status is reported under the parser's default
\* relevance
StatusAnalysis_unknown(code) ==
    [score |-> 0, relevance |-> STR_Unknown,
     reasoning |-> STR_APIReturnedStatus \o str(code)]

\* f'API returned status {response.status_code}'
StatusAnalysis(code) ==
    [score |-> 0, relevance |-> STR_APIError,
     reasoning |-> STR_APIReturnedStatus \o str(code)]

\* ai_analyzer wraps the error text into 'API Error'; repo_analyzer has its own label
RateLimitAnalysis(script) ==
    [score |-> 0,
     relevance |-> IF script = "repo_analyzer" THEN STR_RateLimited ELSE STR_APIError,
     reasoning |-> STR_RateLimitExceeded]

ParsedAnalysis(result_text) ==
    LET p == parse_ai_response(result_text)
    IN  [score |-> p.score, relevance |-> p.relevance, reasoning |-> p.reasoning,
         full_response |-> result_text]

\* `if not readme_content or len(readme_content.strip()) < 50`
TooShort(readme_content) ==
    readme_content = <<>> \/ Len(strip(readme_content)) < MinReadmeLen

\* `if readme:` in the orchestrators: None and the empty string are falsy
Truthy(r) ==
    ~r.none /\ r.text # <<>>

\* mutant of ContentResult: the status of the content GET is not looked at
ContentResult_unchecked(gh) ==
    Some(gh.text)

\* fetch_readme: `if content_response.status_code == 200: return ...text`,
\* else None
ContentResult(gh) ==
    IF gh.content_status = HTTP_OK THEN Some(gh.text) ELSE None

\* mutant of wait_time: a constant delay instead of a linear backoff
wait_time_constant(a) ==
    BackoffStepMs

\* wait_time = (attempt + 1) * 3, in milliseconds
wait_time(a) ==
    (a + 1) * BackoffStepMs

\* mutant of IsRateLimit: every non-200 status is retried
IsRateLimit_any(status) ==
    status # HTTP_OK

\* `elif response.status_code == 429`
IsRateLimit(status) ==
    status = HTTP_TOO_MANY

\* mutant of MayRetry: the last attempt is retried as well
MayRetry_last_too(a) ==
    a < max_retries

\* `if attempt < max_retries - 1`
MayRetry(a) ==
    a < max_retries - 1

\* the answer to the k-th POST about a repository; the provider repeats its last
ResponseAt(name, k) ==
    LET rs == provider[name]
    IN  rs[IF k > Len(rs) THEN Len(rs) ELSE k]

Call(op, repo, arg) ==
    [op |-> op, repo |-> repo, arg |-> arg]

CurName ==
    repos[i].name

\* results.append({...}): repo_analyzer.py records no is_fork
ResultEntry(script, repo, a) ==
    IF script = "repo_analyzer"
    THEN [repo_name |-> repo.name, analysis |-> a]
    ELSE [repo_name |-> repo.name, is_fork |-> is_fork(repo), analysis |-> a]

(***************************************************************************)
(* json.dump / json.load of the result list.  The structure of the        *)
(* document follows the list; every leaf is written as its JSON text and   *)
(* read back from it.                                                      *)
(***************************************************************************)
\* the escapes json.dumps writes inside a string
RECURSIVE JsonEscape(_)
JsonEscape(s) ==
    IF s = <<>> THEN <<>>
    ELSE LET c == Head(s)
         IN  (CASE c = "\"" -> <<"\\", "\"">>
                [] c = "\\" -> <<"\\", "\\">>
                [] c = "\n" -> <<"\\", "n">>
                [] c = "\r" -> <<"\\", "r">>
                [] c = "\t" -> <<"\\", "t">>
                [] OTHER -> <<c>>) \o JsonEscape(Tail(s))

\* what json.loads makes of the inside of a string
RECURSIVE JsonUnescape(_)
JsonUnescape(t) ==
    IF t = <<>> THEN <<>>
    ELSE IF Head(t) = "\\" /\ Len(t) >= 2
    THEN LET c == t[2]
         IN  <<(CASE c = "n" -> "\n" [] c = "r" -> "\r" [] c = "t" -> "\t"
                  [] OTHER -> c)>> \o JsonUnescape(Tail(Tail(t)))
    ELSE <<Head(t)>> \o JsonUnescape(Tail(t))

JsonString(s) ==
    <<"\"">> \o JsonEscape(s) \o <<"\"">>

JsonParseString(tok) ==
    JsonUnescape(Slice(tok, 2, Len(tok) - 1))

JsonInt(n) ==
    IF n < 0 THEN <<"-">> \o str(0 - n) ELSE str(n)

JsonParseInt(tok) ==
    int(tok).val

JsonBool(b) ==
    IF b THEN <<"t", "r", "u", "e">> ELSE <<"f", "a", "l", "s", "e">>

JsonParseBool(tok) ==
    tok = <<"t", "r", "u", "e">>

\* the keys of an analysis dict: full_response only after a parsed reply
DumpAnalysis(a) ==
    IF "full_response" \in DOMAIN a
    THEN [score |-> JsonInt(a.score), relevance |-> JsonString(a.relevance),
          reasoning |-> JsonString(a.reasoning),
          full_response |-> JsonString(a.full_response)]
    ELSE [score |-> JsonInt(a.score), relevance |-> JsonString(a.relevance),
          reasoning |-> JsonString(a.reasoning)]

LoadAnalysis(d) ==
    IF "full_response" \in DOMAIN d
    THEN [score |-> JsonParseInt(d.score), relevance |-> JsonParseString(d.relevance),
          reasoning |-> JsonParseString(d.reasoning),
          full_response |-> JsonParseString(d.full_response)]
    ELSE [score |-> JsonParseInt(d.score), relevance |-> JsonParseString(d.relevance),
          reasoning |-> JsonParseString(d.reasoning)]

DumpEntry(e) ==
    IF "is_fork" \in DOMAIN e
    THEN [repo_name |-> JsonInt(e.repo_name), is_fork |-> JsonBool(e.is_fork),
          analysis |-> DumpAnalysis(e.analysis)]
    ELSE [repo_name |-> JsonInt(e.repo_name), analysis |-> DumpAnalysis(e.analysis)]

LoadEntry(d) ==
    IF "is_fork" \in DOMAIN d
    THEN [repo_name |-> JsonParseInt(d.repo_name), is_fork |-> JsonParseBool(d.is_fork),
          analysis |-> LoadAnalysis(d.analysis)]
    ELSE [repo_name |-> JsonParseInt(d.repo_name), analysis |-> LoadAnalysis(d.analysis)]

\* json.dump(results, f, indent=2)
json_dump(rs) ==
    [k \in 1..Len(rs) |-> DumpEntry(rs[k])]

\* json.load(f)
json_load(doc) ==
    [k \in 1..Len(doc) |-> LoadEntry(doc[k])]

\* mutant of SavedList: only the sorted top of the list is written
SavedList_top_only(rs) ==
    Take(rs, TopCount)

\* the list __main__ hands to save_results: the whole result list
SavedList(rs) ==
    rs

\* repo_analysis.json as an earlier run left it
StaleFile ==
    [doc |-> json_dump(<<[repo_name |-> 0, is_fork |-> FALSE,
                         analysis |-> NoReadmeAnalysis]>>)]

(***************************************************************************)
(* sorted(results, key=score, reverse=True): a stable sort.                *)
(***************************************************************************)
\* mutant of InsertByScore: an entry goes in front of the entries of equal score
RECURSIVE InsertByScore_before_ties(_, _)
InsertByScore_before_ties(done, x) ==
    IF done = <<>> THEN <<x>>
    ELSE IF Head(done).analysis.score > x.analysis.score
    THEN <<Head(done)>> \o InsertByScore_before_ties(Tail(done), x)
    ELSE <<x>> \o done

\* x goes behind every entry whose score is at least its own
RECURSIVE InsertByScore(_, _)
InsertByScore(done, x) ==
    IF done = <<>> THEN <<x>>
    ELSE IF Head(done).analysis.score >= x.analysis.score
    THEN <<Head(done)>> \o InsertByScore(Tail(done), x)
    ELSE <<x>> \o done

RECURSIVE sorted_by_score(_)
sorted_by_score(rs) ==
    IF rs = <<>> THEN <<>>
    ELSE InsertByScore(sorted_by_score(Slice(rs, 1, Len(rs) - 1)), rs[Len(rs)])

(***************************************************************************)
(* Initial states: a script, its credentials, an input file and a world.   *)
(***************************************************************************)
Init ==
    /\ config \in Configs
    /\ \E cases \in InputLists :
        /\ all_repos = [k \in 1..Len(cases) |-> RepoEntry(k, cases[k].fork)]
        /\ github = [k \in 1..Len(cases) |-> cases[k].gh]
        /\ provider = [k \in 1..Len(cases) |-> cases[k].rs]
    /\ pc = "main"
    /\ exit_code = -1
    /\ repos = <<>>
    /\ i = 0
    /\ readme = None
    /\ attempt = 0
    /\ analysis = NoAnalysis
    /\ results = <<>>
    /\ calls = <<>>
    /\ file = StaleFile
    /\ summary = <<>>
    /\ x_repos = <<>>
    /\ x_pc = "off"
    /\ x_i = 0
    /\ languages = <<>>
    /\ x_gets = <<>>

(***************************************************************************)
(* Actions.                                                                *)
(***************************************************************************)
\* the credential check of a script's __main__; repo_analyzer.py has none
HasCredential ==
    CASE config.script = "ai_analyzer" -> USE_GROQ \/ config.GEMINI_API_KEY
      [] config.script = "repo_analyzer" -> TRUE
      [] config.script = "repo_analyzer_groq" -> config.GROQ_API_KEY

\* __main__ up to the call of the orchestrator
Main ==
    /\ pc = "main"
    /\ IF HasCredential
       THEN pc' = "start" /\ exit_code' = exit_code
       ELSE pc' = "exited" /\ exit_code' = 1
    /\ UNCHANGED <<config, all_repos, github, provider, repos, i, readme,
                   attempt, analysis, results, calls>>
    /\ UNCHANGED <<outVars, extractVars>>

\* analyze_repos / analyze_all_repos up to the loop
Start ==
    /\ pc = "start"
    /\ repos' = SelectRepos(config.script, all_repos)
    /\ results' = <<>>
    /\ i' = 1
    /\ pc' = IF repos' = <<>> THEN "done" ELSE "fetch_meta"
    /\ UNCHANGED <<config, all_repos, github, provider, exit_code, readme,
                   attempt, analysis, calls>>
    /\ UNCHANGED <<outVars, extractVars>>

\* fetch_readme: `if response.status_code == 200:` and `if download_url:`
HasContentRef(gh) ==
    gh.meta_status = HTTP_OK /\ gh.download_url

\* fetch_readme: the GET of the README metadata.  An exception of requests.get
\* is caught nowhere and ends the script.
GetMetadata ==
    /\ pc = "fetch_meta"
    /\ calls' = Append(calls, Call("GET_readme", CurName, 0))
    /\ LET gh == github[CurName]
       IN  IF gh.meta_exc
           THEN pc' = "crashed" /\ exit_code' = 1 /\ readme' = readme
           ELSE /\ exit_code' = exit_code
                /\ IF HasContentRef(gh)
                   THEN pc' = "fetch_content" /\ readme' = readme
                   ELSE pc' = "branch" /\ readme' = None
    /\ UNCHANGED <<config, all_repos, github, provider, repos, i, attempt,
                   analysis, results>>
    /\ UNCHANGED <<outVars, extractVars>>

\* fetch_readme: the GET of download_url
GetContent ==
    /\ pc = "fetch_content"
    /\ calls' = Append(calls, Call("GET_content", CurName, 0))
    /\ LET gh == github[CurName]
       IN  IF gh.content_exc
           THEN pc' = "crashed" /\ exit_code' = 1 /\ readme' = readme
           ELSE /\ exit_code' = exit_code
                /\ pc' = "branch"
                /\ readme' = ContentResult(gh)
    /\ UNCHANGED <<config, all_repos, github, provider, repos, i, attempt,
                   analysis, results>>
    /\ UNCHANGED <<outVars, extractVars>>

\* `if readme:` of the orchestrator and the length guard of analyze_similarity
Branch ==
    /\ pc = "branch"
    /\ IF ~Truthy(readme)
       THEN analysis' = NoReadmeAnalysis /\ pc' = "record"
       ELSE IF TooShort(readme.text)
       THEN analysis' = NoContentAnalysis /\ pc' = "record"
       ELSE analysis' = analysis /\ pc' = "post"
    /\ attempt' = 0
    /\ UNCHANGED <<config, all_repos, github, provider, exit_code, repos, i,
                   readme, results, calls>>
    /\ UNCHANGED <<outVars, extractVars>>

\* analyze_with_groq / analyze_similarity of repo_analyzer_groq.py: one POST
PostGroq ==
    /\ pc = "post"
    /\ USE_GROQ
    /\ LET r == ResponseAt(CurName, 1)
           post == Call("POST_groq", CurName, 0)
       IN  IF r.exc
           THEN analysis' = ErrorAnalysis(ERR_Connection) /\ calls' = Append(calls, post)
           ELSE IF r.status # HTTP_OK
           THEN analysis' = StatusAnalysis(r.status) /\ calls' = Append(calls, post)
           ELSE IF ~r.json_ok
           THEN analysis' = ErrorAnalysis(ERR_Decode) /\ calls' = Append(calls, post)
           ELSE /\ analysis' = ParsedAnalysis(r.text)
                /\ calls' = calls \o <<post, Call("sleep", CurName, GroqDelayMs)>>
    /\ pc' = "record"
    /\ UNCHANGED <<config, all_repos, github, provider, exit_code, repos, i,
                   readme, attempt, results>>
    /\ UNCHANGED <<outVars, extractVars>>

\* analyze_with_gemini / analyze_similarity of repo_analyzer.py: one iteration
\* of `for attempt in range(max_retries)`
PostGemini ==
    /\ pc = "post"
    /\ ~USE_GROQ
    /\ LET r == ResponseAt(CurName, attempt + 1)
           post == Call("POST_gemini", CurName, 0)
       IN  IF r.exc
           THEN /\ analysis' = ErrorAnalysis(ERR_Connection)
                /\ calls' = Append(calls, post)
                /\ pc' = "record" /\ attempt' = attempt
           ELSE IF r.status = HTTP_OK
           THEN /\ pc' = "record" /\ attempt' = attempt
                /\ IF r.json_ok
                   THEN /\ analysis' = ParsedAnalysis(r.text)
                        /\ calls' = calls \o <<post, Call("sleep", CurName, GeminiDelayMs)>>
                   ELSE /\ analysis' = ErrorAnalysis(ERR_Decode)
                        /\ calls' = Append(calls, post)
           ELSE IF IsRateLimit(r.status)
           THEN IF MayRetry(attempt)
                THEN /\ calls' = calls \o <<post, Call("sleep", CurName, wait_time(attempt))>>
                     /\ attempt' = attempt + 1
                     /\ pc' = "post" /\ analysis' = analysis
                ELSE /\ analysis' = RateLimitAnalysis(config.script)
                     /\ calls' = Append(calls, post)
                     /\ pc' = "record" /\ attempt' = attempt
           ELSE /\ analysis' = StatusAnalysis(r.status)
                /\ calls' = Append(calls, post)
                /\ pc' = "record" /\ attempt' = attempt
    /\ UNCHANGED <<config, all_repos, github, provider, exit_code, repos, i,
                   readme, results>>
    /\ UNCHANGED <<outVars, extractVars>>

\* results.append({...}) and the step of the loop
Record ==
    /\ pc = "record"
    /\ results' = Append(results, ResultEntry(config.script, repos[i], analysis))
    /\ IF i < Len(repos)
       THEN i' = i + 1 /\ pc' = "fetch_meta"
       ELSE i' = i /\ pc' = "done"
    /\ UNCHANGED <<config, all_repos, github, provider, exit_code, repos,
                   readme, attempt, analysis, calls>>
    /\ UNCHANGED <<outVars, extractVars>>

\* save_results(results) / save_analysis_results(results): open(filename, 'w')
\* and json.dump
Save ==
    /\ pc = "done"
    /\ file' = [doc |-> json_dump(SavedList(results))]
    /\ pc' = "saved"
    /\ UNCHANGED <<config, all_repos, github, provider, exit_code, repos, i,
                   readme, attempt, analysis, results, calls>>
    /\ UNCHANGED <<summary, extractVars>>

\* print_summary(results): sorted_results[:5] is printed, results is not touched
PrintSummary ==
    /\ pc = "saved"
    /\ summary' = Take(sorted_by_score(results), TopCount)
    /\ pc' = "complete"
    /\ UNCHANGED <<config, all_repos, github, provider, exit_code, repos, i,
                   readme, attempt, analysis, results, calls>>
    /\ UNCHANGED <<file, extractVars>>

Next ==
    \/ Main
    \/ Start
    \/ GetMetadata
    \/ GetContent
    \/ Branch
    \/ PostGroq
    \/ PostGemini
    \/ Record
    \/ Save
    \/ PrintSummary

Spec ==
    Init /\ [][Next]_vars

(***************************************************************************)
(* Vocabulary of the properties.                                           *)
(***************************************************************************)
PostOps ==
    {"POST_groq", "POST_gemini"}

\* the POSTs and sleeps made for one repository, in order
ModelCalls(name) ==
    SelectSeq(calls, LAMBDA c : c.repo = name /\ c.op \in PostOps \cup {"sleep"})

NumPosts(name) ==
    Len(SelectSeq(calls, LAMBDA c : c.repo = name /\ c.op \in PostOps))

Recorded(name) ==
    \E k \in 1..Len(results) : results[k].repo_name = name

AnalysisOf(name) ==
    results[CHOOSE k \in 1..Len(results) : results[k].repo_name = name].analysis

\* the analysis of a repository once its model client has returned
Settled(name) ==
    Recorded(name) \/ (pc = "record" /\ repos[i].name = name)

SettledAnalysis(name) ==
    IF Recorded(name) THEN AnalysisOf(name) ELSE analysis

Truncating ==
    config.script \in {"ai_analyzer", "repo_analyzer_groq"}

\* GitHub answers both GETs about the repository with 200 and a download_url
ReadmeServed(name) ==
    /\ ~github[name].meta_exc /\ github[name].meta_status = HTTP_OK
    /\ github[name].download_url
    /\ ~github[name].content_exc /\ github[name].content_status = HTTP_OK

\* a GET about the repository raises before fetch_readme can return
FetchRaises(name) ==
    \/ github[name].meta_exc
    \/ /\ github[name].meta_status = HTTP_OK /\ github[name].download_url
       /\ github[name].content_exc

\* fetch_readme returns None: a non-200 answer or no download_url
FetchAbsent(name) ==
    ~FetchRaises(name) /\ ~ReadmeServed(name)

(***************************************************************************)
(* C1 (fault isolation).  As claimed: an exception anywhere in the         *)
(* pipeline of a repository, the two README GETs included, never ends the  *)
(* run; the repository is recorded with score 0 and relevance 'Error' and  *)
(* the loop goes on until the last repository is recorded.  The code       *)
(* catches exceptions only inside analyze_similarity, so this fails.       *)
(***************************************************************************)
C1_FaultIsolation ==
    /\ pc # "crashed"
    /\ \A k \in 1..Len(results) :
          LET name == results[k].repo_name
          IN  (FetchRaises(name)
               \/ (NumPosts(name) > 0 /\ ResponseAt(name, NumPosts(name)).exc))
              => /\ results[k].analysis.score = 0
                 /\ results[k].analysis.relevance = STR_Error
    /\ pc = "done" => Len(results) = Len(repos)

(***************************************************************************)
(* C2 (bounded retry).  When the provider answers 429 to the first three   *)
(* POSTs about a repository, the Gemini client makes exactly three POSTs,  *)
(* sleeps 3 s after the first and 6 s after the second, nothing after the  *)
(* third, and returns 'API rate limit exceeded after retries', which no    *)
(* other non-200 status produces.                                          *)
(***************************************************************************)
ThreeTimes429(name) ==
    \A k \in 1..max_retries :
        ~ResponseAt(name, k).exc /\ ResponseAt(name, k).status = HTTP_TOO_MANY

ExhaustedCalls(name) ==
    << Call("POST_gemini", name, 0), Call("sleep", name, 3000),
       Call("POST_gemini", name, 0), Call("sleep", name, 6000),
       Call("POST_gemini", name, 0) >>

OtherStatus(name, k) ==
    LET r == ResponseAt(name, k)
    IN  /\ ~r.exc
        /\ r.status # HTTP_OK
        /\ USE_GROQ \/ r.status # HTTP_TOO_MANY

C3_NoRetryOnOtherStatus ==
    \A name \in 1..Len(all_repos) : \A k \in 1..max_retries :
        (OtherStatus(name, k) /\ NumPosts(name) >= k) =>
            /\ NumPosts(name) = k
            /\ ModelCalls(name)[Len(ModelCalls(name))].op \in PostOps
            /\ Settled(name)
            /\ SettledAnalysis(name) =
                 [score |-> 0, relevance |-> STR_APIError,
                  reasoning |-> STR_APIReturnedStatus \o str(ResponseAt(name, k).status)]

C3_Witness ==
    /\ pc = "done"
    /\ \E name \in 1..Len(all_repos) :
          /\ Recorded(name)
          /\ \/ ~USE_GROQ /\ NumPosts(name) = 3 /\ OtherStatus(name, 3)
             \/ USE_GROQ /\ NumPosts(name) = 1
                /\ ResponseAt(name, 1).status = HTTP_TOO_MANY

(***************************************************************************)
(* C4 (short README guard).  As claimed: every repository whose fetched    *)
(* README has fewer than 50 characters after trimming, the empty README    *)
(* included, gets no model POST and the analysis 'No Content' / 'README is *)
(* too short or empty'.  The orchestrators test `if readme:` first, so an  *)
(* empty README is recorded as 'No README' and this fails.                 *)
(***************************************************************************)
C4_ShortReadmeGuard ==
    \A name \in 1..Len(all_repos) :
        (ReadmeServed(name) /\ Len(strip(github[name].text)) < MinReadmeLen
         /\ Recorded(name)) =>
            /\ NumPosts(name) = 0
            /\ AnalysisOf(name) =
                 [score |-> 0, relevance |-> STR_NoContent, reasoning |-> STR_TooShort]

(***************************************************************************)
(* C5 (missing README).  Every repository for which fetch_readme returns   *)
(* None (non-200 metadata, no download_url, non-200 content) is recorded   *)
(* with exactly score 0, 'No README', 'Repository has no README file', and *)
(* no model POST is made for it.                                           *)
(***************************************************************************)
C5_MissingReadme ==
    \A name \in 1..Len(all_repos) :
        (FetchAbsent(name) /\ Recorded(name)) =>
            /\ NumPosts(name) = 0
            /\ AnalysisOf(name) =
                 [score |-> 0, relevance |-> STR_NoREADME,
                  reasoning |-> STR_NoReadmeFile]

C5_Witness ==
    /\ pc = "done"
    /\ \E name \in 1..Len(all_repos) :
          /\ Recorded(name) /\ FetchAbsent(name)
          /\ github[name].meta_status = HTTP_OK /\ github[name].download_url

(***************************************************************************)
(* The parser claims are stated over the recorded analyses of the          *)
(* repositories whose POST was answered 200: such an analysis keeps the    *)
(* reply in full_response next to the three parsed fields.                 *)
(***************************************************************************)
ParsedResults ==
    {k \in 1..Len(results) : "full_response" \in DOMAIN results[k].analysis}

\* the reply is the single line `label` + rest
OneLine(text, label) ==
    startswith(text, label) /\ \A k \in 1..Len(text) : text[k] # "\n"

\* the text of a line after its label (the label ends with the first colon)
AfterLabel(text, label) ==
    Slice(text, Len(label) + 1, Len(text))

(***************************************************************************)
(* C6 (score extraction).  As claimed: for a reply line 'SCORE:' + rest,   *)
(* the score is n when the text of rest up to its first '/' is an integer  *)
(* n (any n, no range check) and 0 when it is not an integer; never an     *)
(* exception.  The code cuts the line at every colon and reads only the    *)
(* piece between the first and the second, so 'SCORE: 1:0' yields 1, not 0.*)
(***************************************************************************)
C6_ScoreExtraction ==
    \A k \in ParsedResults :
        LET a == results[k].analysis
            n == int(split(AfterLabel(a.full_response, LBL_SCORE), "/")[1])
        IN  OneLine(a.full_response, LBL_SCORE) =>
                a.score = IF n.ok THEN n.val ELSE 0

(***************************************************************************)
(* C7 (other fields).  As claimed: for a reply line 'RELEVANCE:' + rest or *)
(* 'REASONING:' + rest the parsed field is the whole of rest, trimmed,     *)
(* also when rest contains further colons.  The code takes RELEVANCE with  *)
(* split(':')[1], which stops at the second colon, so this fails.          *)
(***************************************************************************)
C7_FieldExtraction ==
    \A k \in ParsedResults :
        LET a == results[k].analysis
        IN  /\ OneLine(a.full_response, LBL_RELEVANCE) =>
                 a.relevance = strip(AfterLabel(a.full_response, LBL_RELEVANCE))
            /\ OneLine(a.full_response, LBL_REASONING) =>
                 a.reasoning = strip(AfterLabel(a.full_response, LBL_REASONING))

(***************************************************************************)
(* C8 (overwrite and default).  For every reply and each of score,         *)
(* relevance and reasoning, the parsed value is the value of the last line *)
(* that starts with the field's label and the default (0, 'Unknown', '')   *)
(* when no line does; hence a later malformed SCORE line resets the score  *)
(* to 0 and a line with one label changes no other field.  The lines are   *)
(* those of the reply with its surrounding whitespace trimmed.             *)
(***************************************************************************)
\* position of the last line starting with label, 0 when there is none
LastLabelled(lines, label) ==
    IF \E k \in 1..Len(lines) : startswith(lines[k], label)
    THEN CHOOSE k \in 1..Len(lines) :
            /\ startswith(lines[k], label)
            /\ \A j \in (k + 1)..Len(lines) : ~startswith(lines[j], label)
    ELSE 0

C8_LastWinsAndDefaults ==
    \A k \in ParsedResults :
        LET a == results[k].analysis
            lines == ReplyLines(a.full_response)
            ks == LastLabelled(lines, LBL_SCORE)
            kr == LastLabelled(lines, LBL_RELEVANCE)
            kt == LastLabelled(lines, LBL_REASONING)
        IN  /\ a.score = IF ks = 0 THEN 0 ELSE ScoreOfLine(lines[ks])
            /\ a.relevance = IF kr = 0 THEN STR_Unknown ELSE RelevanceOfLine(lines[kr])
            /\ a.reasoning = IF kt = 0 THEN <<>> ELSE ReasoningOfLine(lines[kt])

\* a valid score line followed by a malformed one is recorded with score 0
C8_Witness ==
    \E k \in ParsedResults :
        LET a == results[k].analysis
            lines == ReplyLines(a.full_response)
        IN  /\ Len(lines) = 2
            /\ startswith(lines[1], LBL_SCORE) /\ ScoreOfLine(lines[1]) = 8
            /\ startswith(lines[2], LBL_SCORE)
            /\ a.score = 0 /\ a.relevance = STR_Unknown

(***************************************************************************)
(* The orchestrator claims.  A repository's name is its position in the    *)
(* input list, so names order as the input does.                           *)
(***************************************************************************)
\* the loop has its list: the script is past the filter and the cut
Selecting ==
    pc \notin {"main", "exited", "start"}

\* input positions whose entry does not say is_fork = true
NonForkPositions ==
    {k \in 1..Len(all_repos) :
        ~("is_fork" \in DOMAIN all_repos[k] /\ all_repos[k].is_fork)}

\* the list l holds exactly the first ten non-fork entries of the input (all
\* of them when there are fewer), in input order
IsFirstNonForks(l) ==
    /\ Len(l) = IF Cardinality(NonForkPositions) < TruncLimit
                THEN Cardinality(NonForkPositions) ELSE TruncLimit
    /\ \A j \in 1..Len(l) :
          /\ l[j].name \in NonForkPositions
          /\ l[j] = all_repos[l[j].name]
    /\ \A j \in 1..(Len(l) - 1) : l[j].name < l[j + 1].name
    /\ \A k \in NonForkPositions :
          (l # <<>> /\ k < l[Len(l)].name) => \E j \in 1..Len(l) : l[j].name = k

ForkFiltering ==
    config.script \in {"ai_analyzer", "repo_analyzer_groq"}

C10_ForkExclusion ==
    ForkFiltering =>
        /\ \A k \in 1..Len(calls) : calls[k].repo \in NonForkPositions
        /\ \A k \in 1..Len(results) :
              /\ results[k].repo_name \in NonForkPositions
              /\ results[k].is_fork = FALSE
        /\ Selecting =>
              /\ \A j \in 1..Len(repos) : repos[j].name \in NonForkPositions
              /\ \A k \in 1..Len(all_repos) :
                    ("is_fork" \notin DOMAIN all_repos[k]
                     /\ Cardinality({m \in NonForkPositions : m < k}) < TruncLimit)
                    => \E j \in 1..Len(repos) : repos[j] = all_repos[k]

\* a finished run whose input had a fork and an entry without the key
C10_Witness ==
    /\ ForkFiltering /\ pc = "done"
    /\ \E k \in 1..Len(all_repos) :
          "is_fork" \in DOMAIN all_repos[k] /\ all_repos[k].is_fork
    /\ \E k \in 1..Len(all_repos) :
          /\ "is_fork" \notin DOMAIN all_repos[k]
          /\ \E j \in 1..Len(results) :
                results[j].repo_name = k /\ results[j].is_fork = FALSE

(***************************************************************************)
(* C11 (credential gate).  A script that runs with no model credential     *)
(* configured for it makes no README fetch and no model POST, leaves the    *)
(* output file as it was, goes no further than its credential check and    *)
(* exits with a non-zero status.                                           *)
(***************************************************************************)
\* the credential the script's model client sends
ScriptCredential ==
    CASE config.script = "ai_analyzer" -> config.GROQ_API_KEY \/ config.GEMINI_API_KEY
      [] config.script = "repo_analyzer" -> config.GEMINI_API_KEY
      [] config.script = "repo_analyzer_groq" -> config.GROQ_API_KEY

C11_CredentialGate ==
    ~ScriptCredential =>
        /\ calls = <<>>
        /\ file = StaleFile
        /\ pc \in {"main", "exited"}
        /\ pc = "exited" => exit_code # 0

(***************************************************************************)
(* C12 (provider selection).  In ai_analyzer every model POST of a run     *)
(* goes to Groq when GROQ_API_KEY is set, whether or not GEMINI_API_KEY is *)
(* set too, and to Gemini otherwise; POSTs to both providers never occur   *)
(* in one run, also after the chosen provider has failed.                   *)
(***************************************************************************)
ChosenOp ==
    IF config.GROQ_API_KEY THEN "POST_groq" ELSE "POST_gemini"

C12_ProviderSelection ==
    config.script = "ai_analyzer" =>
        \A k \in 1..Len(calls) : calls[k].op \in PostOps => calls[k].op = ChosenOp

\* both keys are set, the POST for the first repository failed and the
\* second repository was sent to the model as well
C12_Witness ==
    /\ config.script = "ai_analyzer"
    /\ config.GROQ_API_KEY /\ config.GEMINI_API_KEY
    /\ pc = "done" /\ Len(results) = 2
    /\ NumPosts(results[1].repo_name) = 1
    /\ LET r == ResponseAt(results[1].repo_name, 1)
       IN  r.exc \/ r.status # HTTP_OK
    /\ NumPosts(results[2].repo_name) = 1

(***************************************************************************)
(* C13 (ranking).  Once print_summary has run, what it has printed is the  *)
(* first min(5, number of results) of the results ordered by score         *)
(* descending, results of equal score in processing order: the printed     *)
(* entries are results, each one scores at least as much as the next and   *)
(* comes before it in the result list when they score the same, and every  *)
(* result left out scores no more than any printed one and comes behind    *)
(* it in the result list when they score the same.  The result list        *)
(* itself still holds the processed repositories in processing order.      *)
(***************************************************************************)
Summarised ==
    pc = "complete"

\* the place in the result list of the j-th printed entry
PlaceOf(j) ==
    CHOOSE k \in 1..Len(results) : results[k].repo_name = summary[j].repo_name

Score(e) ==
    e.analysis.score

\* a goes before b in the ranking
RanksBefore(a, ka, b, kb) ==
    Score(a) > Score(b) \/ (Score(a) = Score(b) /\ ka < kb)

C13_Ranking ==
    Summarised =>
        /\ Len(summary) = (IF Len(results) < TopCount THEN Len(results) ELSE TopCount)
        /\ \A j \in 1..Len(summary) :
              /\ \E k \in 1..Len(results) : results[k] = summary[j]
              /\ summary[j] = results[PlaceOf(j)]
              /\ j < Len(summary) =>
                    RanksBefore(summary[j], PlaceOf(j), summary[j + 1], PlaceOf(j + 1))
              /\ \A k \in 1..Len(results) :
                    (\A m \in 1..Len(summary) : PlaceOf(m) # k)
                    => RanksBefore(summary[j], PlaceOf(j), results[k], k)
        /\ Len(results) = Len(repos)
        /\ \A k \in 1..Len(results) : results[k].repo_name = repos[k].name

\* more than five results; two printed entries tie, an entry left out ties
\* with the last printed one, and a lower score was processed first
C13_Witness ==
    /\ Summarised
    /\ Len(results) > TopCount
    /\ Len(summary) = TopCount
    /\ Score(summary[1]) = Score(summary[2])
    /\ \E k \in 1..Len(results) :
          /\ \A m \in 1..Len(summary) : PlaceOf(m) # k
          /\ Score(results[k]) = Score(summary[TopCount])
    /\ Score(results[1]) < Score(summary[1])

(***************************************************************************)
(* C14 (persistence round-trip).  Once the results are saved, reading the  *)
(* output file back gives a list equal to the in-memory result list:       *)
(* one entry per processed repository, in processing order, every field    *)
(* equal, whatever the number of results; nothing of the file's earlier    *)
(* content is left.                                                        *)
(***************************************************************************)
Saved ==
    pc \in {"saved", "complete"}

C14_RoundTrip ==
    Saved =>
        /\ json_load(file.doc) = results
        /\ Len(file.doc) = Len(repos)
        /\ \A k \in 1..Len(file.doc) :
              json_load(file.doc)[k].repo_name = repos[k].name
        /\ file.doc = <<>> <=> results = <<>>
        /\ \A k \in 1..Len(file.doc) : file.doc[k] \notin {StaleFile.doc[m] : m \in 1..Len(StaleFile.doc)}

\* more results than the summary shows, not in score order, with a reply of
\* several lines among them, saved over the earlier file
C14_Witness ==
    /\ Saved
    /\ Len(results) > TopCount
    /\ results[1].analysis.score < results[2].analysis.score
    /\ \E k \in 1..Len(results[2].analysis.full_response) :
          results[2].analysis.full_response[k] = "\n"
    /\ file # StaleFile

(***************************************************************************)
(* C15 (result invariant).  In every state the result list holds at most   *)
(* one entry per repository, each for a repository the loop has reached;   *)
(* an entry that does not come from a parsed reply, and an entry of a      *)
(* repository whose last POST raised or was answered with a status other   *)
(* than 200 or that was never sent to the model, has score 0 and a         *)
(* relevance among 'No README', 'No Content', 'API Error', 'Rate Limited'  *)
(* and 'Error'; an entry with a non-zero score belongs to a repository     *)
(* whose last POST was answered with status 200.                           *)
(***************************************************************************)
Sentinels ==
    {STR_NoREADME, STR_NoContent, STR_APIError, STR_RateLimited, STR_Error}

IsFailureEntry(e) ==
    e.analysis.score = 0 /\ e.analysis.relevance \in Sentinels

\* the last POST made for the repository was answered with status 200
PostSucceeded(name) ==
    /\ NumPosts(name) >= 1
    /\ LET r == ResponseAt(name, NumPosts(name))
       IN  ~r.exc /\ r.status = HTTP_OK

C15_ResultInvariant ==
    /\ \A j, k \in 1..Len(results) :
          results[j].repo_name = results[k].repo_name => j = k
    /\ \A k \in 1..Len(results) :
          /\ k <= Len(repos) /\ results[k].repo_name = repos[k].name
          /\ "full_response" \notin DOMAIN results[k].analysis => IsFailureEntry(results[k])
          /\ results[k].analysis.score # 0 => PostSucceeded(results[k].repo_name)
          /\ ~PostSucceeded(results[k].repo_name) => IsFailureEntry(results[k])

\* a finished run of repo_analyzer with a rate-limited repository and a
\* repository with a score
C15_Witness ==
    /\ pc = "done"
    /\ \E k \in 1..Len(results) :
          /\ results[k].analysis.relevance = STR_RateLimited
          /\ NumPosts(results[k].repo_name) = max_retries
    /\ \E k \in 1..Len(results) : results[k].analysis.score # 0

(***************************************************************************)
(* C16 (fetch_readme protocol).  As claimed: the content GET of a          *)
(* repository comes directly after its metadata GET and only when that GET *)
(* was answered with status 200 and a download_url; once the GETs of a     *)
(* repository are over, fetch_readme has returned the content text if both *)
(* GETs were answered with 200 and has returned the one value None in      *)
(* every other case.  The code returns nothing when a GET raises, so this  *)
(* fails; the part about answered GETs, C16_AnsweredGets, holds.           *)
(***************************************************************************)
\* fetch_readme has just returned to the orchestrator
FetchReturned ==
    pc = "branch"

\* the GETs for the current repository are over
FetchOver ==
    pc \in {"branch", "crashed"}

MetaServed(name) ==
    /\ ~github[name].meta_exc /\ github[name].meta_status = HTTP_OK
    /\ github[name].download_url

C16_AnsweredGets ==
    /\ \A k \in 1..Len(calls) :
          /\ calls[k].op = "GET_content" =>
                /\ MetaServed(calls[k].repo)
                /\ k > 1 /\ calls[k - 1] = Call("GET_readme", calls[k].repo, 0)
          /\ (calls[k].op = "GET_readme" /\ k < Len(calls)) =>
                (MetaServed(calls[k].repo)
                 <=> calls[k + 1] = Call("GET_content", calls[k].repo, 0))
    /\ FetchReturned =>
          /\ ReadmeServed(CurName) => readme = Some(github[CurName].text)
          /\ ~ReadmeServed(CurName) => readme = None
          /\ calls[Len(calls)].repo = CurName
          /\ calls[Len(calls)].op = (IF MetaServed(CurName) THEN "GET_content" ELSE "GET_readme")

C16_FetchProtocol ==
    /\ C16_AnsweredGets
    /\ FetchOver =>
          /\ FetchReturned
          /\ readme = (IF ReadmeServed(CurName) THEN Some(github[CurName].text) ELSE None)

(***************************************************************************)
(* github_data_extractor.py: get_languages_from_repos.  A dict is a        *)
(* function from its keys to its values; the GET of a languages_url either *)
(* raises or answers with a status and a body.                             *)
(***************************************************************************)
MaxLangRepos == 3

\* bodies of the languages endpoint: language name -> bytes of code
LangDicts ==
    { <<>>, [Python |-> 2], [JavaScript |-> 3], [Python |-> 1, JavaScript |-> 4] }

\* a repository of get_user_repos as get_languages_from_repos sees it: without
\* a languages_url, or with one whose GET answers 200, is refused, or raises
LangRepos ==
    { [has_url |-> FALSE, exc |-> FALSE, status |-> 0, body |-> <<>>] }
    \cup { [has_url |-> TRUE, exc |-> FALSE, status |-> HTTP_OK, body |-> d] : d \in LangDicts }
    \cup { [has_url |-> TRUE, exc |-> FALSE, status |-> s, body |-> [Python |-> 7]] : s \in {404} }
    \cup { [has_url |-> TRUE, exc |-> TRUE, status |-> 0, body |-> <<>>] }

LangRepoLists ==
    UNION {[1..n -> LangRepos] : n \in 0..MaxLangRepos}

\* languages.get(lang, 0)
DictGet(d, key, default) ==
    IF key \in DOMAIN d THEN d[key] ELSE default

\* for lang, bytes_count in repo_languages.items():
\*     languages[lang] = languages.get(lang, 0) + bytes_count
MergeLanguages(acc, repo_languages) ==
    [lang \in DOMAIN acc \cup DOMAIN repo_languages |->
        DictGet(acc, lang, 0) + DictGet(repo_languages, lang, 0)]

\* the values of the analyzer's variables while the extractor runs
AnalyzerIdle ==
    /\ config = [script |-> "ai_analyzer", GROQ_API_KEY |-> FALSE, GEMINI_API_KEY |-> FALSE]
    /\ all_repos = <<>> /\ github = <<>> /\ provider = <<>>
    /\ pc = "off" /\ exit_code = -1
    /\ repos = <<>> /\ i = 0 /\ readme = None /\ attempt = 0
    /\ analysis = NoAnalysis /\ results = <<>> /\ calls = <<>>
    /\ file = StaleFile /\ summary = <<>>

\* get_languages_from_repos(repos) is called: languages = {}
InitExtract ==
    /\ AnalyzerIdle
    /\ x_repos \in LangRepoLists
    /\ x_pc = "loop"
    /\ x_i = 1
    /\ languages = <<>>
    /\ x_gets = <<>>

\* one iteration of `for repo in repos`.  An exception of requests.get is
\* caught nowhere and leaves the function.
XIterate ==
    /\ x_pc = "loop"
    /\ x_i <= Len(x_repos)
    /\ LET repo == x_repos[x_i]
       IN  IF ~repo.has_url
           THEN /\ x_gets' = x_gets /\ languages' = languages
                /\ x_i' = x_i + 1 /\ x_pc' = x_pc
           ELSE /\ x_gets' = Append(x_gets, x_i)
                /\ IF repo.exc
                   THEN x_pc' = "crashed" /\ x_i' = x_i /\ languages' = languages
                   ELSE /\ x_pc' = x_pc /\ x_i' = x_i + 1
                        /\ languages' = IF repo.status = HTTP_OK
                                        THEN MergeLanguages(languages, repo.body)
                                        ELSE languages
    /\ UNCHANGED <<runVars, outVars, x_repos>>

\* return languages
XReturn ==
    /\ x_pc = "loop"
    /\ x_i > Len(x_repos)
    /\ x_pc' = "returned"
    /\ UNCHANGED <<runVars, outVars, x_repos, x_i, languages, x_gets>>

NextExtract ==
    \/ XIterate
    \/ XReturn

SpecExtract ==
    InitExtract /\ [][NextExtract]_vars

(***************************************************************************)
(* C17 (language histogram).  As claimed: whatever the repositories and    *)
(* the outcomes of their GETs, a GET is sent for exactly the repositories  *)
(* with a languages_url, the accumulator holds for each language the sum   *)
(* of its byte counts over the repositories handled so far whose GET was   *)
(* answered with 200, and a GET that fails for one repository does not     *)
(* stop the accumulation: the function goes through the whole list and     *)
(* returns the sums over all of it.  The code does not catch an exception  *)
(* of the GET, so this fails; the part about answered GETs,                *)
(* C17_AnsweredGets, holds.                                                *)
(***************************************************************************)
\* the repository at position k contributes to the histogram
Contributes(k) ==
    x_repos[k].has_url /\ ~x_repos[k].exc /\ x_repos[k].status = HTTP_OK

\* the sum of the byte counts of lang over the contributing repositories
\* among the first n
RECURSIVE SumOver(_, _)
SumOver(lang, n) ==
    IF n = 0 THEN 0
    ELSE SumOver(lang, n - 1)
         + (IF Contributes(n) THEN DictGet(x_repos[n].body, lang, 0) ELSE 0)

LangsOver(n) ==
    UNION {DOMAIN x_repos[k].body : k \in {m \in 1..n : Contributes(m)}}

HistogramOver(n) ==
    [lang \in LangsOver(n) |-> SumOver(lang, n)]

\* the repositories the loop is through with
Handled ==
    IF x_pc = "crashed" THEN x_i - 1 ELSE
    IF x_i > Len(x_repos) THEN Len(x_repos) ELSE x_i - 1

Extracting ==
    x_pc \in {"loop", "returned", "crashed"}

C17_AnsweredGets ==
    Extracting =>
        /\ languages = HistogramOver(Handled)
        /\ \A k \in 1..Len(x_gets) : x_repos[x_gets[k]].has_url
        /\ \A k \in 1..Handled :
              x_repos[k].has_url <=> \E m \in 1..Len(x_gets) : x_gets[m] = k
        /\ \A k, m \in 1..Len(x_gets) : k < m => x_gets[k] < x_gets[m]
        /\ x_pc = "returned" => Handled = Len(x_repos)

C17_Histogram ==
    /\ C17_AnsweredGets
    /\ Extracting => x_pc # "crashed"

(***************************************************************************)
(* C18 (per-run ordering and termination).  The repositories are handled   *)
(* one after another in input order, each with its README fetch first,     *)
(* then its model POSTs (only if a README was found), then its entry in    *)
(* the result list, and no request for a repository is made before the     *)
(* entries of all earlier ones are recorded; at most 2 GETs and at most 3  *)
(* POSTs (1 with Groq) are made per repository; when the loop is over the  *)
(* result list has one entry per selected repository, in the same order;   *)
(* and when every README GET is answered with an HTTP response, whatever   *)
(* the responses, the run never ends short of the end of the loop: until   *)
(* it is complete it stands at a step it can take, and every step lowers   *)
(* a natural number, so the end is reached.                                *)
(***************************************************************************)
GetOps ==
    {"GET_readme", "GET_content"}

NumGets(name) ==
    Len(SelectSeq(calls, LAMBDA c : c.repo = name /\ c.op \in GetOps))

PostLimit ==
    IF USE_GROQ THEN 1 ELSE max_retries

\* the loop is at the repository at position i
InLoop ==
    pc \in {"fetch_meta", "fetch_content", "branch", "post", "record"}

\* the loop has been left in the regular way
LoopOver ==
    pc \in {"done", "saved", "complete"}

C18_Sequencing ==
    /\ \A k \in 1..Len(calls) :
          /\ k > 1 =>
                /\ calls[k - 1].repo <= calls[k].repo
                /\ (calls[k - 1].repo = calls[k].repo /\ calls[k].op \in GetOps)
                   => calls[k - 1].op = "GET_readme" /\ calls[k].op = "GET_content"
                /\ calls[k - 1].repo # calls[k].repo => calls[k].op = "GET_readme"
          /\ calls[k].op \in PostOps =>
                ReadmeServed(calls[k].repo) /\ github[calls[k].repo].text # <<>>
          /\ \E j \in 1..Len(repos) :
                /\ repos[j].name = calls[k].repo
                /\ j <= Len(results) + 1
    /\ \A j \in 1..Len(repos) :
          /\ NumGets(repos[j].name) <= 2
          /\ NumPosts(repos[j].name) <= PostLimit
          /\ j <= Len(results) =>
                /\ results[j].repo_name = repos[j].name
                /\ NumGets(repos[j].name) >= 1
    /\ InLoop => Len(results) = i - 1
    /\ LoopOver => Len(results) = Len(repos)

\* every README GET of the run is answered with an HTTP response
GetsAnswered ==
    \A j \in 1..Len(repos) : ~FetchRaises(repos[j].name)

\* steps left of the loop body for the current repository
StageRank ==
    CASE pc = "fetch_meta" -> 9
      [] pc = "fetch_content" -> 8
      [] pc = "branch" -> 7
      [] pc = "post" -> 6 - attempt
      [] pc = "record" -> 3

\* a number that every step of the run makes smaller
Rank ==
    CASE pc = "main" -> Len(all_repos) * 10 + 7
      [] pc = "start" -> Len(all_repos) * 10 + 6
      [] InLoop -> 3 + (Len(repos) - i) * 10 + StageRank
      [] pc = "done" -> 2
      [] pc = "saved" -> 1
      [] OTHER -> 0

\* the run has not ended and stands at a step it can take
CanStep ==
    \/ pc \in {"main", "start", "done", "saved"}
    \/ InLoop /\ i \in 1..Len(repos) /\ attempt \in 0..(max_retries - 1)

C18_Progress ==
    /\ Rank >= 0
    /\ GetsAnswered => pc \in {"exited", "complete"} \/ CanStep

C18_OrderingAndTermination ==
    /\ [](C18_Sequencing /\ C18_Progress)
    /\ [][Rank' < Rank]_vars

\* the loop is over after two repositories: one without a README, one whose
\* three POSTs were all answered with 429
C18_Witness ==
    /\ LoopOver /\ Len(results) = 2 /\ GetsAnswered
    /\ \E j \in 1..2 :
          NumGets(repos[j].name) = 1 /\ NumPosts(repos[j].name) = 0
    /\ \E j \in 1..2 :
          NumGets(repos[j].name) = 2 /\ NumPosts(repos[j].name) = max_retries

====
